---- MODULE Spec2Model ----
(***************************************************************************)
(* Model of the elevator simulation: the Elevator class                    *)
(* (src/classes/elevator.py), its Timer, the two speed profiles and the    *)
(* keyboard listener thread that presses the "close door" button.          *)
(*                                                                         *)
(* Times are Python numbers of seconds.  An uninterrupted phase returns an  *)
(* int, an interrupted wait returns the float its loop has summed up in    *)
(* steps of 0.1, and the totals are sums of both; they are modelled as     *)
(* IEEE-754 doubles with round-to-nearest-even addition (see Floats).      *)
(*                                                                         *)
(* A Python number handed in as a floor is a record                        *)
(*   [type |-> "int" or "float", twice |-> twice its value]                *)
(* so that 2.5 is [type |-> "float", twice |-> 5]; current_floor and the   *)
(* entries of visited_floors, which only ever hold accepted ints, are      *)
(* plain integers.                                                         *)
(***************************************************************************)
EXTENDS Integers, Sequences, FiniteSets, TLC

VARIABLES
    start_floor,              \* constructor argument start_floor (an accepted int)
    floors_to_visit,          \* self.floors_to_visit: sequence of Python numbers
    real_time,                \* self.real_time
    FLOOR_TRAVEL_TIME,        \* class attribute of the profile in use (seconds per floor)
    current_floor,            \* self._current_floor
    current_state,            \* self.current_state
    visited_floors,           \* self.visited_floors
    total_time,               \* self.total_time               (seconds)
    travel_time,              \* self.travel_time              (seconds)
    door_operation_time,      \* self.door_operation_time      (seconds)
    passenger_transfer_time,  \* self.passenger_transfer_time  (seconds)
    close_door_pressed,       \* threading.Event close_door_pressed
    stop_listener,            \* threading.Event stop_listener
    skip_passenger_transfer,  \* self.skip_passenger_transfer
    pc,                       \* position of the main thread in run()
    idx,                      \* number of floors the for loop of run() has fetched
    call,                     \* "run": already-at-floor branch; "visit_floor": inside visit_floor
    elapsed,                  \* local elapsed of _interruptible_sleep
    door_open,                \* run(): local door_open
    passenger_transfer,       \* run(): local passenger_transfer
    door_close,               \* run(): local door_close
    time_elapsed_travel,      \* visit_floor(): local
    time_elapsed_doors,       \* visit_floor(): local
    time_elapsed_passengers,  \* visit_floor(): local
    error,                    \* exception that left run(): "none", "TypeError", "ValueError"
    l_pc,                     \* position of the keyboard_listener thread
    lines_read,               \* lines input() has returned so far
    interrupted,              \* history: the waits that returned early (the "interrupted
                              \* after" log lines of _interruptible_sleep), each as
                              \* <<number of the requested floor, "opening" or "transfer">>
    state_trace               \* history: the values assigned to self.current_state, in
                              \* the order of the assignments

carVars == <<current_floor, current_state, visited_floors, skip_passenger_transfer>>
accVars == <<total_time, travel_time, door_operation_time, passenger_transfer_time>>
localVars == <<elapsed, door_open, passenger_transfer, door_close,
               time_elapsed_travel, time_elapsed_doors, time_elapsed_passengers>>
inputVars == <<start_floor, floors_to_visit, real_time, FLOOR_TRAVEL_TIME>>
listenerVars == <<l_pc, lines_read>>
vars == <<inputVars, carVars, accVars, localVars, close_door_pressed, stop_listener,
          pc, idx, call, error, listenerVars, interrupted, state_trace>>

----------------------------------------------------------------------------
(* Program constants *)

MIN_FLOOR == 1
MAX_FLOOR == 35
STANDARD_FLOOR_TRAVEL_TIME == 10
FAST_FLOOR_TRAVEL_TIME == 5
DOOR_OPEN_TIME == 2
DOOR_CLOSE_TIME == 2
PASSENGER_TRANSFER_TIME == 4

(* Bounds of the model *)

MaxPlanLen == 2
MaxRealTimePlanLen == 1
MaxLines == 1
MaxTimePerFloor == 10

----------------------------------------------------------------------------
(* Floats *)

\* A time t >= 0 is the triple <<hi, mid, lo>> of limbs below Limb with
\*   t = (hi * Limb^2 + mid * Limb + lo) / 2^56 seconds.
\* Every double from 2^-4 up to 2^16 is such a triple (its last bit weighs at
\* least 2^-56), and so is 0.  A triple is a double when it has at most 53
\* significant bits.
Limb == 2 ^ 24

\* The Python int n, in seconds (also the float of the same value).
Sec(n) == <<n * (2 ^ 8), 0, 0>>

\* The number h / 2, in seconds.
HalfSec(h) == <<h * (2 ^ 7), 0, 0>>

RECURSIVE Log2(_)
Log2(n) == IF n <= 1 THEN 0 ELSE 1 + Log2(n \div 2)

\* Carries of a triple whose limbs have grown beyond Limb.
Carry(hi, mid, lo) ==
    LET m == mid + (lo \div Limb)
    IN  <<hi + (m \div Limb), m % Limb, lo % Limb>>

\* The float operations below bind their operands to v before they compute,
\* so that each operand is evaluated once (Python evaluates the operands of an
\* operation before the operation).

\* Rounding of an exact result to the nearest double, ties to even.  With
\* hi < 2^5 the triple has at most 53 bits and is a double; otherwise its
\* leading bit is bit 48 + Log2(hi) and the bits below q = 2^(Log2(hi) - 4)
\* are rounded away.
Nearest(t) ==
    IF t[1] < 32
    THEN t
    ELSE LET q == 2 ^ (Log2(t[1]) - 4)
             r == t[3] % q
         IN  IF r = 0
             THEN t
             ELSE IF 2 * r > q \/ (2 * r = q /\ (t[3] \div q) % 2 = 1)
                  THEN Carry(t[1], t[2], t[3] - r + q)
                  ELSE <<t[1], t[2], t[3] - r>>

FloatRound(t) == CHOOSE r \in {Nearest(v) : v \in {t}} : TRUE

\* The rounded sum of two triples.
Sum(a, b) == FloatRound(Carry(a[1] + b[1], a[2] + b[2], a[3] + b[3]))

\* a + b of Python
FloatAdd(a, b) == CHOOSE r \in {Sum(v[1], v[2]) : v \in {<<a, b>>}} : TRUE

\* a < b of Python
FloatLess(a, b) ==
    \/ a[1] < b[1]
    \/ a[1] = b[1] /\ a[2] < b[2]
    \/ a[1] = b[1] /\ a[2] = b[2] /\ a[3] < b[3]

\* The rounded difference of two triples a >= b.
Difference(a, b) ==
    LET lo == a[3] - b[3]
        b0 == IF lo < 0 THEN 1 ELSE 0
        mid == a[2] - b[2] - b0
        b1 == IF mid < 0 THEN 1 ELSE 0
    IN  FloatRound(<<a[1] - b[1] - b1, mid + b1 * Limb, lo + b0 * Limb>>)

\* a - b of Python, for a >= b
FloatSub(a, b) == CHOOSE r \in {Difference(v[1], v[2]) : v \in {<<a, b>>}} : TRUE

\* The smaller of two triples, the first when they are equal.
Smaller(a, b) == IF FloatLess(b, a) THEN b ELSE a

\* min(a, b) of Python
FloatMin(a, b) == CHOOSE r \in {Smaller(v[1], v[2]) : v \in {<<a, b>>}} : TRUE

\* step = 0.1 of _interruptible_sleep: the double nearest to 0.1,
\* 16^^1999999999999A / 2^56.
step == <<25, 10066329, 10066330>>

----------------------------------------------------------------------------
(* Python numbers handed in as floors *)

PyInt(n) == [type |-> "int", twice |-> 2 * n]
PyFloat(twice) == [type |-> "float", twice |-> twice]

Abs(x) == IF x < 0 THEN -x ELSE x

\* isinstance(value, int)
IsInstanceInt(value) == value.type = "int"

\* value == floor, for a Python number value and an int floor
PyEq(value, floor) == value.twice = 2 * floor

\* validate_floor without the test against MAX_FLOOR.
validate_floor_NoUpperBound(value) ==
    ~ (value.twice < 2 * MIN_FLOOR)

\* validate_floor(floor): TRUE when it returns, FALSE when it raises ValueError
validate_floor(value) ==
    ~ (value.twice < 2 * MIN_FLOOR \/ value.twice > 2 * MAX_FLOOR)

\* The current_floor property setter: the floor stored afterwards and the
\* exception raised ("none" when the assignment is accepted).
current_floor_setter(old, value) ==
    IF ~ IsInstanceInt(value)
    THEN [floor |-> old, error |-> "TypeError"]
    ELSE IF ~ validate_floor(value)
         THEN [floor |-> old, error |-> "ValueError"]
         ELSE [floor |-> value.twice \div 2, error |-> "none"]

\* calculate_travel_time with the time per floor of the base class, whatever
\* the profile.
calculate_travel_time_BaseProfile(twice_floors, time_per_floor) ==
    HalfSec(twice_floors * STANDARD_FLOOR_TRAVEL_TIME)

\* Timer.calculate_travel_time(floors, time_per_floor): floors * time_per_floor,
\* for a distance given as twice the number of floors (the product is exact).
calculate_travel_time(twice_floors, time_per_floor) ==
    HalfSec(twice_floors * time_per_floor)

----------------------------------------------------------------------------
(* Inputs *)

\* Values handed in as floors: the two lowest floors and the top floor, the
\* first value outside the building on either side, and a value that is no int.
FloorValues ==
    {PyInt(MIN_FLOOR - 1), PyInt(MIN_FLOOR), PyInt(MIN_FLOOR + 1), PyInt(MAX_FLOOR),
     PyInt(MAX_FLOOR + 1), PyFloat(2 * MIN_FLOOR + 3)}

\* Values handed in as floors of a run in real time.
RealTimeFloorValues == FloorValues \ {PyInt(MAX_FLOOR)}

\* Values handed in as the start floor.
StartValues == {PyInt(MIN_FLOOR - 1), PyInt(MIN_FLOOR), PyFloat(2 * MIN_FLOOR + 3)}

Plans == UNION {[1..n -> FloorValues] : n \in 0..MaxPlanLen}
RealTimePlans == UNION {[1..n -> RealTimeFloorValues] : n \in 0..MaxRealTimePlanLen}

\* The floor plans of the integration tests and of the scenario of the spec.
ScenarioPlan(floors) == [i \in 1..Len(floors) |-> PyInt(floors[i])]
Scenarios ==
    {<<PyInt(1), ScenarioPlan(<<2, 3>>)>>,
     <<PyInt(5), ScenarioPlan(<<5, 10>>)>>,
     <<PyInt(12), ScenarioPlan(<<2, 9, 1, 32>>)>>}

\* The floor plans of the integration tests, run in real time.
RealTimeScenarios ==
    {<<PyInt(1), ScenarioPlan(<<2, 3>>)>>,
     <<PyInt(5), ScenarioPlan(<<5, 10>>)>>}

Profiles == {STANDARD_FLOOR_TRAVEL_TIME, FAST_FLOOR_TRAVEL_TIME}

\* Elevator.__init__: the state after a construction that did not raise.
Construct(start, plan, rt, profile) ==
    /\ current_floor_setter("None", start).error = "none"
    /\ start_floor = current_floor_setter("None", start).floor
    /\ current_floor = current_floor_setter("None", start).floor
    /\ floors_to_visit = plan
    /\ real_time = rt
    /\ FLOOR_TRAVEL_TIME = profile
    /\ total_time = Sec(0)
    /\ travel_time = Sec(0)
    /\ door_operation_time = Sec(0)
    /\ passenger_transfer_time = Sec(0)
    /\ visited_floors = <<current_floor_setter("None", start).floor>>
    /\ close_door_pressed = FALSE
    /\ stop_listener = FALSE
    /\ current_state = "idle"
    /\ skip_passenger_transfer = FALSE

\* The runs of the model: without real time every plan on both profiles and
\* the scenarios; in real time every real-time plan and the plans of the
\* integration tests on the standard profile.
Init ==
    /\ \/ \E start \in StartValues, plan \in Plans, profile \in Profiles :
              Construct(start, plan, FALSE, profile)
       \/ \E sc \in Scenarios, profile \in Profiles :
              Construct(sc[1], sc[2], FALSE, profile)
       \/ \E start \in StartValues, plan \in RealTimePlans :
              Construct(start, plan, TRUE, STANDARD_FLOOR_TRAVEL_TIME)
       \/ \E sc \in RealTimeScenarios :
              Construct(sc[1], sc[2], TRUE, STANDARD_FLOOR_TRAVEL_TIME)
    /\ pc = "run"
    /\ idx = 0
    /\ call = "run"
    /\ elapsed = Sec(0)
    /\ door_open = Sec(0)
    /\ passenger_transfer = Sec(0)
    /\ door_close = Sec(0)
    /\ time_elapsed_travel = Sec(0)
    /\ time_elapsed_doors = Sec(0)
    /\ time_elapsed_passengers = Sec(0)
    /\ error = "none"
    /\ l_pc = "off"
    /\ lines_read = 0
    /\ interrupted = {}
    /\ state_trace = <<"idle">>

----------------------------------------------------------------------------
(* The main thread: Elevator.run and the operations it calls *)

\* The floor the for loop of run() is serving.
Target == floors_to_visit[idx]

\* RunStart that starts the listener thread whether or not the run is in real
\* time.
RunStart_AlwaysListens ==
    /\ pc = "run"
    /\ pc' = "for"
    /\ l_pc' = "while"
    /\ UNCHANGED <<inputVars, carVars, accVars, localVars, close_door_pressed,
                   stop_listener, idx, call, error, lines_read, interrupted,
                   state_trace>>

\* run(), up to the for loop: in real-time mode the listener thread is started.
RunStart ==
    /\ pc = "run"
    /\ pc' = "for"
    /\ l_pc' = IF real_time THEN "while" ELSE l_pc
    /\ UNCHANGED <<inputVars, carVars, accVars, localVars, close_door_pressed,
                   stop_listener, idx, call, error, lines_read, interrupted,
                   state_trace>>

\* ForNext without the comparison with the current floor: every floor is
\* handed to visit_floor.
ForNext_AlwaysVisit ==
    /\ pc = "for"
    /\ IF idx = Len(floors_to_visit)
       THEN /\ pc' = "stop_listener"
            /\ UNCHANGED <<idx, call>>
       ELSE /\ idx' = idx + 1
            /\ call' = "visit_floor"
            /\ pc' = "travel_to_floor"
    /\ UNCHANGED <<inputVars, carVars, accVars, localVars, close_door_pressed,
                   stop_listener, error, listenerVars, interrupted, state_trace>>

\* for floor in self.floors_to_visit: if floor == self.current_floor ... else ...
ForNext ==
    /\ pc = "for"
    /\ IF idx = Len(floors_to_visit)
       THEN /\ pc' = "stop_listener"
            /\ UNCHANGED <<idx, call>>
       ELSE /\ idx' = idx + 1
            /\ IF PyEq(floors_to_visit[idx + 1], current_floor)
               THEN call' = "run" /\ pc' = "open_doors"
               ELSE call' = "visit_floor" /\ pc' = "travel_to_floor"
    /\ UNCHANGED <<inputVars, carVars, accVars, localVars, close_door_pressed,
                   stop_listener, error, listenerVars, interrupted, state_trace>>

\* TwiceFloorsToTravel without abs().
TwiceFloorsToTravel_NoAbs == Target.twice - 2 * current_floor

\* floors_to_travel of travel_to_floor, doubled.
TwiceFloorsToTravel == Abs(Target.twice - 2 * current_floor)

\* TravelToFloor that shows the state traveling only for a travel of more than
\* FAST_FLOOR_TRAVEL_TIME seconds.
TravelToFloor_OnlyLongTravel ==
    /\ pc = "travel_to_floor"
    /\ IF FloatLess(Sec(FAST_FLOOR_TRAVEL_TIME),
                 calculate_travel_time(TwiceFloorsToTravel, FLOOR_TRAVEL_TIME))
       THEN /\ current_state' = "traveling"
            /\ state_trace' = Append(state_trace, "traveling")
            /\ pc' = "travel_sleep"
            /\ UNCHANGED time_elapsed_travel
       ELSE /\ time_elapsed_travel' =
                 FloatAdd(time_elapsed_travel,
                          calculate_travel_time(TwiceFloorsToTravel, FLOOR_TRAVEL_TIME))
            /\ pc' = "set_floor"
            /\ UNCHANGED <<current_state, state_trace>>
    /\ UNCHANGED <<inputVars, current_floor, visited_floors, skip_passenger_transfer,
                   accVars, elapsed, door_open, passenger_transfer, door_close,
                   time_elapsed_doors, time_elapsed_passengers, close_door_pressed,
                   stop_listener, idx, call, error, listenerVars, interrupted>>

\* travel_to_floor, up to the sleep: the state becomes traveling when there is
\* a distance to travel; with no distance it returns 0 at once.
TravelToFloor ==
    /\ pc = "travel_to_floor"
    /\ IF TwiceFloorsToTravel > 0
       THEN /\ current_state' = "traveling"
            /\ state_trace' = Append(state_trace, "traveling")
            /\ pc' = "travel_sleep"
            /\ UNCHANGED time_elapsed_travel
       ELSE /\ time_elapsed_travel' =
                 FloatAdd(time_elapsed_travel,
                          calculate_travel_time(TwiceFloorsToTravel, FLOOR_TRAVEL_TIME))
            /\ pc' = "set_floor"
            /\ UNCHANGED <<current_state, state_trace>>
    /\ UNCHANGED <<inputVars, current_floor, visited_floors, skip_passenger_transfer,
                   accVars, elapsed, door_open, passenger_transfer, door_close,
                   time_elapsed_doors, time_elapsed_passengers, close_door_pressed,
                   stop_listener, idx, call, error, listenerVars, interrupted>>

\* TravelSleep that also adds the travel time to self.travel_time itself.
TravelSleep_AddsTravelTime ==
    /\ pc = "travel_sleep"
    /\ time_elapsed_travel' =
         FloatAdd(time_elapsed_travel,
                  calculate_travel_time(TwiceFloorsToTravel, FLOOR_TRAVEL_TIME))
    /\ travel_time' =
         FloatAdd(travel_time,
                  calculate_travel_time(TwiceFloorsToTravel, FLOOR_TRAVEL_TIME))
    /\ pc' = "set_floor"
    /\ UNCHANGED <<inputVars, carVars, total_time, door_operation_time,
                   passenger_transfer_time, elapsed, door_open, passenger_transfer,
                   door_close, time_elapsed_doors, time_elapsed_passengers,
                   close_door_pressed, stop_listener, idx, call, error, listenerVars,
                   interrupted, state_trace>>

\* TravelSleep that also moves the car: it stores the target floor as the
\* current floor before it returns.
TravelSleep_MovesCar ==
    /\ pc = "travel_sleep"
    /\ time_elapsed_travel' =
         FloatAdd(time_elapsed_travel,
                  calculate_travel_time(TwiceFloorsToTravel, FLOOR_TRAVEL_TIME))
    /\ current_floor' = current_floor_setter(current_floor, Target).floor
    /\ pc' = "set_floor"
    /\ UNCHANGED <<inputVars, current_state, visited_floors, skip_passenger_transfer,
                   accVars, elapsed, door_open, passenger_transfer, door_close,
                   time_elapsed_doors, time_elapsed_passengers, close_door_pressed,
                   stop_listener, idx, call, error, listenerVars, interrupted,
                   state_trace>>

\* TravelSleep that sets the state back to idle when the travel is over.
TravelSleep_BackToIdle ==
    /\ pc = "travel_sleep"
    /\ time_elapsed_travel' =
         FloatAdd(time_elapsed_travel,
                  calculate_travel_time(TwiceFloorsToTravel, FLOOR_TRAVEL_TIME))
    /\ current_state' = "idle"
    /\ state_trace' = Append(state_trace, "idle")
    /\ pc' = "set_floor"
    /\ UNCHANGED <<inputVars, current_floor, visited_floors, skip_passenger_transfer,
                   accVars, elapsed, door_open, passenger_transfer, door_close,
                   time_elapsed_doors, time_elapsed_passengers, close_door_pressed,
                   stop_listener, idx, call, error, listenerVars, interrupted>>

\* TravelSleep that a pressed close button cuts short: the travel then counts
\* for no time.
TravelSleep_CutShort ==
    /\ pc = "travel_sleep"
    /\ time_elapsed_travel' =
         IF close_door_pressed
         THEN time_elapsed_travel
         ELSE FloatAdd(time_elapsed_travel,
                       calculate_travel_time(TwiceFloorsToTravel, FLOOR_TRAVEL_TIME))
    /\ pc' = "set_floor"
    /\ UNCHANGED <<inputVars, carVars, accVars, elapsed, door_open, passenger_transfer,
                   door_close, time_elapsed_doors, time_elapsed_passengers,
                   close_door_pressed, stop_listener, idx, call, error, listenerVars,
                   interrupted, state_trace>>

\* travel_to_floor: self.timer.sleep(travel_time) is over and it returns.
TravelSleep ==
    /\ pc = "travel_sleep"
    /\ time_elapsed_travel' =
         FloatAdd(time_elapsed_travel,
                  calculate_travel_time(TwiceFloorsToTravel, FLOOR_TRAVEL_TIME))
    /\ pc' = "set_floor"
    /\ UNCHANGED <<inputVars, carVars, accVars, elapsed, door_open, passenger_transfer,
                   door_close, time_elapsed_doors, time_elapsed_passengers,
                   close_door_pressed, stop_listener, idx, call, error, listenerVars,
                   interrupted, state_trace>>

\* SetFloor without self.visited_floors.append(target_floor).
SetFloor_NoAppend ==
    /\ pc = "set_floor"
    /\ LET r == current_floor_setter(current_floor, Target)
       IN  /\ current_floor' = r.floor
           /\ error' = r.error
           /\ IF r.error = "none"
              THEN pc' = "open_doors" /\ UNCHANGED time_elapsed_travel
              ELSE pc' = "raised" /\ time_elapsed_travel' = Sec(0)
    /\ UNCHANGED <<inputVars, current_state, visited_floors, skip_passenger_transfer,
                   accVars, elapsed, door_open, passenger_transfer, door_close,
                   time_elapsed_doors, time_elapsed_passengers, close_door_pressed,
                   stop_listener, idx, call, listenerVars, interrupted, state_trace>>

\* SetFloor that appends the floor the car came from, not the target floor.
SetFloor_AppendsOldFloor ==
    /\ pc = "set_floor"
    /\ LET r == current_floor_setter(current_floor, Target)
       IN  /\ current_floor' = r.floor
           /\ error' = r.error
           /\ IF r.error = "none"
              THEN /\ visited_floors' = Append(visited_floors, current_floor)
                   /\ pc' = "open_doors"
                   /\ UNCHANGED time_elapsed_travel
              ELSE /\ pc' = "raised"
                   /\ time_elapsed_travel' = Sec(0)
                   /\ UNCHANGED visited_floors
    /\ UNCHANGED <<inputVars, current_state, skip_passenger_transfer, accVars, elapsed,
                   door_open, passenger_transfer, door_close, time_elapsed_doors,
                   time_elapsed_passengers, close_door_pressed, stop_listener, idx,
                   call, listenerVars, interrupted, state_trace>>

\* visit_floor: self.current_floor = target_floor;
\* self.visited_floors.append(target_floor).  An exception of the setter leaves
\* visit_floor and run.
SetFloor ==
    /\ pc = "set_floor"
    /\ LET r == current_floor_setter(current_floor, Target)
       IN  /\ current_floor' = r.floor
           /\ error' = r.error
           /\ IF r.error = "none"
              THEN /\ visited_floors' = Append(visited_floors, r.floor)
                   /\ pc' = "open_doors"
                   /\ UNCHANGED time_elapsed_travel
              ELSE /\ pc' = "raised"
                   /\ time_elapsed_travel' = Sec(0)
                   /\ UNCHANGED visited_floors
    /\ UNCHANGED <<inputVars, current_state, skip_passenger_transfer, accVars, elapsed,
                   door_open, passenger_transfer, door_close, time_elapsed_doors,
                   time_elapsed_passengers, close_door_pressed, stop_listener, idx,
                   call, listenerVars, interrupted, state_trace>>

----------------------------------------------------------------------------
(* The interruptible wait *)

\* interruptible_sleep without self.close_door_pressed.clear() when the
\* passenger transfer is interrupted.
interruptible_sleep_PressKept(el, duration, allow_close_button, is_door_opening, pressed) ==
    IF FloatLess(el, duration)
    THEN IF allow_close_button /\ pressed
         THEN [returned |-> TRUE, early |-> TRUE, value |-> el, elapsed |-> el,
               pressed |-> pressed, skip |-> is_door_opening]
         ELSE [returned |-> FALSE, early |-> FALSE, value |-> Sec(0),
               elapsed |-> FloatAdd(el, FloatMin(step, FloatSub(duration, el))),
               pressed |-> pressed, skip |-> FALSE]
    ELSE [returned |-> TRUE, early |-> FALSE, value |-> duration, elapsed |-> el,
          pressed |-> pressed, skip |-> FALSE]

\* interruptible_sleep without self.skip_passenger_transfer = True when the
\* door opening is interrupted.
interruptible_sleep_NoSkip(el, duration, allow_close_button, is_door_opening, pressed) ==
    IF FloatLess(el, duration)
    THEN IF allow_close_button /\ pressed
         THEN [returned |-> TRUE, early |-> TRUE, value |-> el, elapsed |-> el,
               pressed |-> is_door_opening, skip |-> FALSE]
         ELSE [returned |-> FALSE, early |-> FALSE, value |-> Sec(0),
               elapsed |-> FloatAdd(el, FloatMin(step, FloatSub(duration, el))),
               pressed |-> pressed, skip |-> FALSE]
    ELSE [returned |-> TRUE, early |-> FALSE, value |-> duration, elapsed |-> el,
          pressed |-> pressed, skip |-> FALSE]

\* interruptible_sleep whose loop does not add the time slept to elapsed.
interruptible_sleep_NoProgress(el, duration, allow_close_button, is_door_opening, pressed) ==
    IF FloatLess(el, duration)
    THEN IF allow_close_button /\ pressed
         THEN [returned |-> TRUE, early |-> TRUE, value |-> el, elapsed |-> el,
               pressed |-> is_door_opening, skip |-> is_door_opening]
         ELSE [returned |-> FALSE, early |-> FALSE, value |-> Sec(0),
               elapsed |-> el, pressed |-> pressed, skip |-> FALSE]
    ELSE [returned |-> TRUE, early |-> FALSE, value |-> duration, elapsed |-> el,
          pressed |-> pressed, skip |-> FALSE]

\* interruptible_sleep that always sleeps a whole step and returns the elapsed
\* time it has counted, not the duration, when the wait is over.
interruptible_sleep_ReturnsElapsed(el, duration, allow_close_button, is_door_opening, pressed) ==
    IF FloatLess(el, duration)
    THEN IF allow_close_button /\ pressed
         THEN [returned |-> TRUE, early |-> TRUE, value |-> el, elapsed |-> el,
               pressed |-> is_door_opening, skip |-> is_door_opening]
         ELSE [returned |-> FALSE, early |-> FALSE, value |-> Sec(0),
               elapsed |-> FloatAdd(el, step),
               pressed |-> pressed, skip |-> FALSE]
    ELSE [returned |-> TRUE, early |-> FALSE, value |-> el, elapsed |-> el,
          pressed |-> pressed, skip |-> FALSE]

\* interruptible_sleep that sets skip_passenger_transfer whenever it is
\* interrupted, during the passenger transfer too.
interruptible_sleep_SkipAlways(el, duration, allow_close_button, is_door_opening, pressed) ==
    IF FloatLess(el, duration)
    THEN IF allow_close_button /\ pressed
         THEN [returned |-> TRUE, early |-> TRUE, value |-> el, elapsed |-> el,
               pressed |-> is_door_opening, skip |-> TRUE]
         ELSE [returned |-> FALSE, early |-> FALSE, value |-> Sec(0),
               elapsed |-> FloatAdd(el, FloatMin(step, FloatSub(duration, el))),
               pressed |-> pressed, skip |-> FALSE]
    ELSE [returned |-> TRUE, early |-> FALSE, value |-> duration, elapsed |-> el,
          pressed |-> pressed, skip |-> FALSE]

\* One turn of the while loop of _interruptible_sleep, entered with the local
\* elapsed = el and the button state pressed:
\*   returned  the call returns in this turn, with value
\*   early     it returns because the button was seen pressed
\*   elapsed   the local elapsed afterwards
\*   pressed   close_door_pressed afterwards
\*   skip      skip_passenger_transfer is set to True
interruptible_sleep(el, duration, allow_close_button, is_door_opening, pressed) ==
    IF FloatLess(el, duration)
    THEN IF allow_close_button /\ pressed
         THEN [returned |-> TRUE, early |-> TRUE, value |-> el, elapsed |-> el,
               pressed |-> is_door_opening, skip |-> is_door_opening]
         ELSE [returned |-> FALSE, early |-> FALSE, value |-> Sec(0),
               elapsed |-> FloatAdd(el, FloatMin(step, FloatSub(duration, el))),
               pressed |-> pressed, skip |-> FALSE]
    ELSE [returned |-> TRUE, early |-> FALSE, value |-> duration, elapsed |-> el,
          pressed |-> pressed, skip |-> FALSE]

----------------------------------------------------------------------------
(* Door operations *)

\* The caller of open_doors / close_doors takes the returned time: door_open
\* or door_close in run(), time_elapsed_doors in visit_floor().
TakeDoorOpen(value) ==
    IF call = "run"
    THEN door_open' = value /\ UNCHANGED time_elapsed_doors
    ELSE /\ time_elapsed_doors' = FloatAdd(time_elapsed_doors, value)
         /\ UNCHANGED door_open

TakeDoorClose(value) ==
    IF call = "run"
    THEN door_close' = value /\ UNCHANGED time_elapsed_doors
    ELSE /\ time_elapsed_doors' = FloatAdd(time_elapsed_doors, value)
         /\ UNCHANGED door_close

\* The caller of transfer_passengers takes the returned time.
TakeTransfer(value) ==
    IF call = "run"
    THEN passenger_transfer' = value /\ UNCHANGED time_elapsed_passengers
    ELSE /\ time_elapsed_passengers' = FloatAdd(time_elapsed_passengers, value)
         /\ UNCHANGED passenger_transfer

\* open_doors: the state becomes doors_open; without real time it returns
\* DOOR_OPEN_TIME at once, in real time it enters _interruptible_sleep.
OpenDoors ==
    /\ pc = "open_doors"
    /\ current_state' = "doors_open"
    /\ state_trace' = Append(state_trace, "doors_open")
    /\ IF real_time
       THEN /\ elapsed' = Sec(0)
            /\ pc' = "open_wait"
            /\ UNCHANGED <<door_open, time_elapsed_doors>>
       ELSE /\ TakeDoorOpen(Sec(DOOR_OPEN_TIME))
            /\ pc' = "transfer_passengers"
            /\ UNCHANGED elapsed
    /\ UNCHANGED <<inputVars, current_floor, visited_floors, skip_passenger_transfer,
                   accVars, passenger_transfer, door_close, time_elapsed_travel,
                   time_elapsed_passengers, close_door_pressed, stop_listener, idx,
                   call, error, listenerVars, interrupted>>

\* open_doors in real time: one turn of
\* _interruptible_sleep(DOOR_OPEN_TIME, allow_close_button=True, is_door_opening=True).
OpenWait ==
    /\ pc = "open_wait"
    /\ LET r == interruptible_sleep(elapsed, Sec(DOOR_OPEN_TIME), TRUE, TRUE,
                                    close_door_pressed)
       IN  /\ close_door_pressed' = r.pressed
           /\ skip_passenger_transfer' = (skip_passenger_transfer \/ r.skip)
           /\ interrupted' =
                IF r.early THEN interrupted \cup {<<idx, "opening">>} ELSE interrupted
           /\ IF r.returned
              THEN /\ TakeDoorOpen(r.value)
                   /\ elapsed' = Sec(0)
                   /\ pc' = "transfer_passengers"
              ELSE /\ elapsed' = r.elapsed
                   /\ pc' = "open_wait"
                   /\ UNCHANGED <<door_open, time_elapsed_doors>>
    /\ UNCHANGED <<inputVars, current_floor, current_state, visited_floors, accVars,
                   passenger_transfer, door_close, time_elapsed_travel,
                   time_elapsed_passengers, stop_listener, idx, call, error,
                   listenerVars, state_trace>>

\* TransferPassengers that returns 0 on a pending skip without
\* self.skip_passenger_transfer = False.
TransferPassengers_SkipKept ==
    /\ pc = "transfer_passengers"
    /\ IF skip_passenger_transfer
       THEN /\ TakeTransfer(Sec(0))
            /\ pc' = "close_doors"
            /\ UNCHANGED <<current_state, state_trace, elapsed>>
       ELSE /\ current_state' = "transferring"
            /\ state_trace' = Append(state_trace, "transferring")
            /\ IF real_time
               THEN /\ elapsed' = Sec(0)
                    /\ pc' = "transfer_wait"
                    /\ UNCHANGED <<passenger_transfer, time_elapsed_passengers>>
               ELSE /\ TakeTransfer(Sec(PASSENGER_TRANSFER_TIME))
                    /\ pc' = "close_doors"
                    /\ UNCHANGED elapsed
    /\ UNCHANGED <<inputVars, current_floor, visited_floors, skip_passenger_transfer,
                   accVars, door_open, door_close, time_elapsed_travel,
                   time_elapsed_doors, close_door_pressed, stop_listener, idx, call,
                   error, listenerVars, interrupted>>

\* TransferPassengers that sets the state to transferring before it looks at
\* the pending skip.
TransferPassengers_StateFirst ==
    /\ pc = "transfer_passengers"
    /\ current_state' = "transferring"
    /\ state_trace' = Append(state_trace, "transferring")
    /\ IF skip_passenger_transfer
       THEN /\ skip_passenger_transfer' = FALSE
            /\ TakeTransfer(Sec(0))
            /\ pc' = "close_doors"
            /\ UNCHANGED elapsed
       ELSE /\ UNCHANGED skip_passenger_transfer
            /\ IF real_time
               THEN /\ elapsed' = Sec(0)
                    /\ pc' = "transfer_wait"
                    /\ UNCHANGED <<passenger_transfer, time_elapsed_passengers>>
               ELSE /\ TakeTransfer(Sec(PASSENGER_TRANSFER_TIME))
                    /\ pc' = "close_doors"
                    /\ UNCHANGED elapsed
    /\ UNCHANGED <<inputVars, current_floor, visited_floors, accVars, door_open,
                   door_close, time_elapsed_travel, time_elapsed_doors,
                   close_door_pressed, stop_listener, idx, call, error, listenerVars,
                   interrupted>>

\* transfer_passengers: a pending skip is consumed and 0 returned; otherwise the
\* state becomes transferring and the transfer time is waited for.
TransferPassengers ==
    /\ pc = "transfer_passengers"
    /\ IF skip_passenger_transfer
       THEN /\ skip_passenger_transfer' = FALSE
            /\ TakeTransfer(Sec(0))
            /\ pc' = "close_doors"
            /\ UNCHANGED <<current_state, state_trace, elapsed>>
       ELSE /\ current_state' = "transferring"
            /\ state_trace' = Append(state_trace, "transferring")
            /\ UNCHANGED skip_passenger_transfer
            /\ IF real_time
               THEN /\ elapsed' = Sec(0)
                    /\ pc' = "transfer_wait"
                    /\ UNCHANGED <<passenger_transfer, time_elapsed_passengers>>
               ELSE /\ TakeTransfer(Sec(PASSENGER_TRANSFER_TIME))
                    /\ pc' = "close_doors"
                    /\ UNCHANGED elapsed
    /\ UNCHANGED <<inputVars, current_floor, visited_floors, accVars, door_open,
                   door_close, time_elapsed_travel, time_elapsed_doors,
                   close_door_pressed, stop_listener, idx, call, error, listenerVars,
                   interrupted>>

\* transfer_passengers in real time: one turn of
\* _interruptible_sleep(PASSENGER_TRANSFER_TIME, allow_close_button=True).
TransferWait ==
    /\ pc = "transfer_wait"
    /\ LET r == interruptible_sleep(elapsed, Sec(PASSENGER_TRANSFER_TIME), TRUE,
                                    FALSE, close_door_pressed)
       IN  /\ close_door_pressed' = r.pressed
           /\ skip_passenger_transfer' = (skip_passenger_transfer \/ r.skip)
           /\ interrupted' =
                IF r.early THEN interrupted \cup {<<idx, "transfer">>} ELSE interrupted
           /\ IF r.returned
              THEN /\ TakeTransfer(r.value)
                   /\ elapsed' = Sec(0)
                   /\ pc' = "close_doors"
              ELSE /\ elapsed' = r.elapsed
                   /\ pc' = "transfer_wait"
                   /\ UNCHANGED <<passenger_transfer, time_elapsed_passengers>>
    /\ UNCHANGED <<inputVars, current_floor, current_state, visited_floors, accVars,
                   door_open, door_close, time_elapsed_travel, time_elapsed_doors,
                   stop_listener, idx, call, error, listenerVars, state_trace>>

\* close_doors, first statements: a pressed button is cleared and the skip
\* flag reset.
CloseDoors ==
    /\ pc = "close_doors"
    /\ close_door_pressed' = FALSE
    /\ skip_passenger_transfer' = FALSE
    /\ pc' = "doors_closing"
    /\ UNCHANGED <<inputVars, current_floor, current_state, visited_floors, accVars,
                   localVars, stop_listener, idx, call, error, listenerVars,
                   interrupted, state_trace>>

\* close_doors: self.current_state = "doors_closing", then the status line and
\* the sleep of DOOR_CLOSE_TIME begin.
DoorsClosing ==
    /\ pc = "doors_closing"
    /\ current_state' = "doors_closing"
    /\ state_trace' = Append(state_trace, "doors_closing")
    /\ pc' = "close_sleep"
    /\ UNCHANGED <<inputVars, current_floor, visited_floors, skip_passenger_transfer,
                   accVars, localVars, close_door_pressed, stop_listener, idx, call,
                   error, listenerVars, interrupted>>

\* CloseSleep without self.current_state = "idle".
CloseSleep_StateNotReset ==
    /\ pc = "close_sleep"
    /\ TakeDoorClose(Sec(DOOR_CLOSE_TIME))
    /\ pc' = "totals"
    /\ UNCHANGED <<inputVars, carVars, accVars, elapsed, door_open, passenger_transfer,
                   time_elapsed_travel, time_elapsed_passengers, close_door_pressed,
                   stop_listener, idx, call, error, listenerVars, interrupted,
                   state_trace>>

\* CloseSleep whose sleep a pressed button cuts short.
CloseSleep_Interruptible ==
    /\ pc = "close_sleep"
    /\ current_state' = "idle"
    /\ state_trace' = Append(state_trace, "idle")
    /\ TakeDoorClose(IF close_door_pressed THEN Sec(0) ELSE Sec(DOOR_CLOSE_TIME))
    /\ pc' = "totals"
    /\ UNCHANGED <<inputVars, current_floor, visited_floors, skip_passenger_transfer,
                   accVars, elapsed, door_open, passenger_transfer,
                   time_elapsed_travel, time_elapsed_passengers, close_door_pressed,
                   stop_listener, idx, call, error, listenerVars, interrupted>>

\* close_doors: the sleep is over, the state becomes idle and DOOR_CLOSE_TIME
\* is returned.
CloseSleep ==
    /\ pc = "close_sleep"
    /\ current_state' = "idle"
    /\ state_trace' = Append(state_trace, "idle")
    /\ TakeDoorClose(Sec(DOOR_CLOSE_TIME))
    /\ pc' = "totals"
    /\ UNCHANGED <<inputVars, current_floor, visited_floors, skip_passenger_transfer,
                   accVars, elapsed, door_open, passenger_transfer,
                   time_elapsed_travel, time_elapsed_passengers, close_door_pressed,
                   stop_listener, idx, call, error, listenerVars, interrupted>>

\* time_elapsed of visit_floor
time_elapsed ==
    FloatAdd(FloatAdd(time_elapsed_doors, time_elapsed_passengers), time_elapsed_travel)

\* AddTotals whose already-at-floor branch assigns the time of the stop to
\* total_time instead of adding it.
AddTotals_AssignsTotal ==
    /\ pc = "totals"
    /\ IF call = "run"
       THEN /\ door_operation_time' =
                 FloatAdd(door_operation_time, FloatAdd(door_open, door_close))
            /\ passenger_transfer_time' =
                 FloatAdd(passenger_transfer_time, passenger_transfer)
            /\ total_time' =
                 FloatAdd(FloatAdd(door_open, door_close), passenger_transfer)
            /\ UNCHANGED travel_time
       ELSE /\ travel_time' = FloatAdd(travel_time, time_elapsed_travel)
            /\ door_operation_time' = FloatAdd(door_operation_time, time_elapsed_doors)
            /\ passenger_transfer_time' =
                 FloatAdd(passenger_transfer_time, time_elapsed_passengers)
            /\ total_time' = FloatAdd(total_time, time_elapsed)
    /\ door_open' = Sec(0)
    /\ passenger_transfer' = Sec(0)
    /\ door_close' = Sec(0)
    /\ time_elapsed_travel' = Sec(0)
    /\ time_elapsed_doors' = Sec(0)
    /\ time_elapsed_passengers' = Sec(0)
    /\ pc' = "for"
    /\ UNCHANGED <<inputVars, carVars, elapsed, close_door_pressed, stop_listener,
                   idx, call, error, listenerVars, interrupted, state_trace>>

\* run(): the times of the floor just served are added to the totals, in the
\* already-at-floor branch from door_open, passenger_transfer and door_close,
\* otherwise from what visit_floor returned.
AddTotals ==
    /\ pc = "totals"
    /\ IF call = "run"
       THEN /\ door_operation_time' =
                 FloatAdd(door_operation_time, FloatAdd(door_open, door_close))
            /\ passenger_transfer_time' =
                 FloatAdd(passenger_transfer_time, passenger_transfer)
            /\ total_time' =
                 FloatAdd(total_time,
                          FloatAdd(FloatAdd(door_open, door_close), passenger_transfer))
            /\ UNCHANGED travel_time
       ELSE /\ travel_time' = FloatAdd(travel_time, time_elapsed_travel)
            /\ door_operation_time' = FloatAdd(door_operation_time, time_elapsed_doors)
            /\ passenger_transfer_time' =
                 FloatAdd(passenger_transfer_time, time_elapsed_passengers)
            /\ total_time' = FloatAdd(total_time, time_elapsed)
    /\ door_open' = Sec(0)
    /\ passenger_transfer' = Sec(0)
    /\ door_close' = Sec(0)
    /\ time_elapsed_travel' = Sec(0)
    /\ time_elapsed_doors' = Sec(0)
    /\ time_elapsed_passengers' = Sec(0)
    /\ pc' = "for"
    /\ UNCHANGED <<inputVars, carVars, elapsed, close_door_pressed, stop_listener,
                   idx, call, error, listenerVars, interrupted, state_trace>>

\* run(), after the loop: in real time the listener is told to stop; run returns.
StopListener ==
    /\ pc = "stop_listener"
    /\ stop_listener' = (stop_listener \/ real_time)
    /\ pc' = "done"
    /\ UNCHANGED <<inputVars, carVars, accVars, localVars, close_door_pressed, idx,
                   call, error, listenerVars, interrupted, state_trace>>

----------------------------------------------------------------------------
(* The listener thread: Elevator.keyboard_listener *)

\* while not self.stop_listener.is_set()
ListenerWhile ==
    /\ l_pc = "while"
    /\ l_pc' = IF stop_listener THEN "exit" ELSE "input"
    /\ UNCHANGED <<inputVars, carVars, accVars, localVars, close_door_pressed,
                   stop_listener, pc, idx, call, error, lines_read, interrupted,
                   state_trace>>

\* key = input() returns a line; if key == 'c' the state is looked at.
ListenerInput ==
    /\ l_pc = "input"
    /\ lines_read < MaxLines
    /\ lines_read' = lines_read + 1
    /\ \E key \in {"c", "other"} :
         l_pc' = IF key = "c" THEN "if_traveling" ELSE "while"
    /\ UNCHANGED <<inputVars, carVars, accVars, localVars, close_door_pressed,
                   stop_listener, pc, idx, call, error, interrupted, state_trace>>

\* input() raises at the end of the input stream: except: break
ListenerEndOfInput ==
    /\ l_pc = "input"
    /\ l_pc' = "exit"
    /\ UNCHANGED <<inputVars, carVars, accVars, localVars, close_door_pressed,
                   stop_listener, pc, idx, call, error, lines_read, interrupted,
                   state_trace>>

\* if self.current_state == "traveling": the press is ignored
ListenerIfTraveling ==
    /\ l_pc = "if_traveling"
    /\ l_pc' = IF current_state = "traveling" THEN "while" ELSE "elif_doors_open"
    /\ UNCHANGED <<inputVars, carVars, accVars, localVars, close_door_pressed,
                   stop_listener, pc, idx, call, error, lines_read, interrupted,
                   state_trace>>

\* elif self.current_state in ["doors_open", "transferring"]
ListenerElifDoorsOpen ==
    /\ l_pc = "elif_doors_open"
    /\ l_pc' = IF current_state \in {"doors_open", "transferring"}
               THEN "set"
               ELSE "elif_doors_closing"
    /\ UNCHANGED <<inputVars, carVars, accVars, localVars, close_door_pressed,
                   stop_listener, pc, idx, call, error, lines_read, interrupted,
                   state_trace>>

\* self.close_door_pressed.set()
ListenerSet ==
    /\ l_pc = "set"
    /\ close_door_pressed' = TRUE
    /\ l_pc' = "while"
    /\ UNCHANGED <<inputVars, carVars, accVars, localVars, stop_listener, pc, idx,
                   call, error, lines_read, interrupted, state_trace>>

\* elif self.current_state == "doors_closing": pass
ListenerElifDoorsClosing ==
    /\ l_pc = "elif_doors_closing"
    /\ l_pc' = "while"
    /\ UNCHANGED <<inputVars, carVars, accVars, localVars, close_door_pressed,
                   stop_listener, pc, idx, call, error, lines_read, interrupted,
                   state_trace>>

----------------------------------------------------------------------------

Main ==
    \/ RunStart
    \/ ForNext
    \/ TravelToFloor
    \/ TravelSleep
    \/ SetFloor
    \/ OpenDoors
    \/ OpenWait
    \/ TransferPassengers
    \/ TransferWait
    \/ CloseDoors
    \/ DoorsClosing
    \/ CloseSleep
    \/ AddTotals
    \/ StopListener

Listener ==
    \/ ListenerWhile
    \/ ListenerInput
    \/ ListenerEndOfInput
    \/ ListenerIfTraveling
    \/ ListenerElifDoorsOpen
    \/ ListenerSet
    \/ ListenerElifDoorsClosing

Next == Main \/ Listener

Spec == Init /\ [][Next]_vars

----------------------------------------------------------------------------
(* Notions the claims are stated with *)

\* The requested floors as plain integers (for plans made of ints).
FloorOf(i) == floors_to_visit[i].twice \div 2

\* The main thread is in the cycle of a requested floor equal to the floor the
\* car stood at when the floor's turn came (the already-at-floor branch).
SameFloorStop ==
    /\ call = "run"
    /\ pc \in {"open_doors", "open_wait", "transfer_passengers", "transfer_wait",
               "close_doors", "doors_closing", "close_sleep", "totals"}

\* The door-opening wait of the floor being served was interrupted.
OpeningInterrupted == <<idx, "opening">> \in interrupted

\* The passenger-transfer wait of the floor being served was interrupted.
TransferInterrupted == <<idx, "transfer">> \in interrupted

\* Distance travelled along a sequence of floors, starting at floor from.
RECURSIVE PathDistance(_, _)
PathDistance(from, floors) ==
    IF floors = <<>>
    THEN 0
    ELSE Abs(Head(floors) - from) + PathDistance(Head(floors), Tail(floors))

\* The visited-floor history of a car that started at floor from and has served
\* floors: each floor that differed from the floor the car stood at.
RECURSIVE History(_, _)
History(from, floors) ==
    IF floors = <<>>
    THEN <<>>
    ELSE IF Head(floors) = from
         THEN History(from, Tail(floors))
         ELSE <<Head(floors)>> \o History(Head(floors), Tail(floors))

\* Number of requested floors whose turn has come and, if they differed from
\* the current floor, whose arrival has been recorded.
Processed ==
    IF pc \in {"travel_to_floor", "travel_sleep", "set_floor", "raised"}
    THEN idx - 1
    ELSE idx

----------------------------------------------------------------------------
(* C1 *)

LinearCycle ==
    {<<"idle", "traveling">>, <<"traveling", "doors_open">>,
     <<"doors_open", "transferring">>, <<"transferring", "doors_closing">>,
     <<"doors_closing", "idle">>}

\* C1 as claimed: every change of the car's state is a step of the linear cycle
\* idle -> traveling -> doors_open -> transferring -> doors_closing -> idle, or
\* the shortcut idle -> doors_open taken for a requested floor equal to the
\* current floor.
C1_LinearCycleOnly ==
    [][current_state' # current_state =>
         \/ <<current_state, current_state'>> \in LinearCycle
         \/ /\ current_state = "idle"
            /\ current_state' = "doors_open"
            /\ PyEq(Target, current_floor)]_vars

\* C1 amended: every change of the car's state is a step of the linear cycle,
\* the shortcut idle -> doors_open taken for a requested floor equal to the
\* current floor, or the shortcut doors_open -> doors_closing taken when the
\* door-opening wait of that floor was interrupted (its transfer is skipped).
C1_CycleWithSkippedTransfer ==
    [][current_state' # current_state =>
         \/ <<current_state, current_state'>> \in LinearCycle
         \/ /\ current_state = "idle"
            /\ current_state' = "doors_open"
            /\ PyEq(Target, current_floor)
         \/ /\ current_state = "doors_open"
            /\ current_state' = "doors_closing"
            /\ OpeningInterrupted]_vars

\* The doors are closing on a floor whose transfer was skipped.
C1_Witness ==
    /\ current_state = "doors_closing"
    /\ OpeningInterrupted
    /\ idx = Len(floors_to_visit)

----------------------------------------------------------------------------
(* C2 *)

\* C2: when run() has returned and no wait was interrupted, travel_time is the
\* time per floor times the distance along start, f1, ..., fn,
\* door_operation_time is (DOOR_OPEN_TIME + DOOR_CLOSE_TIME) * n,
\* passenger_transfer_time is PASSENGER_TRANSFER_TIME * n and total_time is
\* their sum; start 12, floors 2, 9, 1, 32 on the standard profile give 560,
\* 16, 16 and 592 seconds.
C2_UninterruptedTotals ==
    /\ (pc = "done" /\ interrupted = {}) =>
         LET n == Len(floors_to_visit)
             plan == [i \in 1..n |-> FloorOf(i)]
             travelled == FLOOR_TRAVEL_TIME * PathDistance(start_floor, plan)
             doors == (DOOR_OPEN_TIME + DOOR_CLOSE_TIME) * n
             transfers == PASSENGER_TRANSFER_TIME * n
         IN  /\ travel_time = Sec(travelled)
             /\ door_operation_time = Sec(doors)
             /\ passenger_transfer_time = Sec(transfers)
             /\ total_time = Sec(travelled + doors + transfers)
    /\ (/\ pc = "done"
        /\ start_floor = 12
        /\ floors_to_visit = ScenarioPlan(<<2, 9, 1, 32>>)
        /\ FLOOR_TRAVEL_TIME = STANDARD_FLOOR_TRAVEL_TIME) =>
         /\ travel_time = Sec(560)
         /\ door_operation_time = Sec(16)
         /\ passenger_transfer_time = Sec(16)
         /\ total_time = Sec(592)

\* An uninterrupted run on the fast profile has returned after travelling.
C2_Witness ==
    /\ pc = "done"
    /\ interrupted = {}
    /\ FLOOR_TRAVEL_TIME = FAST_FLOOR_TRAVEL_TIME
    /\ Len(floors_to_visit) = 4
    /\ travel_time = Sec(280)

----------------------------------------------------------------------------
(* C3 *)

\* C3: visited_floors is the start floor followed, in request order, by the
\* processed requested floors that differed from the current floor at their
\* turn; it only grows, by appending at its end; run() returns [1, 2, 3] for
\* start 1, floors 2, 3 and [5, 10] for start 5, floors 5, 10.
C3_VisitedFloors ==
    /\ [](visited_floors
            = <<start_floor>>
                \o History(start_floor, [i \in 1..Processed |-> FloorOf(i)]))
    /\ [][\/ visited_floors' = visited_floors
          \/ \E f \in MIN_FLOOR..MAX_FLOOR :
               visited_floors' = Append(visited_floors, f)]_vars
    /\ []((/\ pc = "done"
           /\ start_floor = 1
           /\ floors_to_visit = ScenarioPlan(<<2, 3>>)) =>
            visited_floors = <<1, 2, 3>>)
    /\ []((/\ pc = "done"
           /\ start_floor = 5
           /\ floors_to_visit = ScenarioPlan(<<5, 10>>)) =>
            visited_floors = <<5, 10>>)

\* The run of start 5, floors 5, 10 has returned.
C3_Witness ==
    /\ pc = "done"
    /\ start_floor = 5
    /\ floors_to_visit = ScenarioPlan(<<5, 10>>)
    /\ visited_floors = <<5, 10>>

----------------------------------------------------------------------------
(* C4 *)

\* C4: a requested floor equal to the current floor is served by open_doors,
\* transfer_passengers and close_doors alone: the state is never traveling
\* during that stop, the stop leaves travel_time, current_floor and
\* visited_floors unchanged, and door_operation_time, passenger_transfer_time
\* and total_time do not shrink.
C4_SameFloorStop ==
    /\ [](SameFloorStop => current_state # "traveling")
    /\ [][(pc = "for" /\ idx' = idx + 1 /\ PyEq(floors_to_visit[idx'], current_floor))
            => (pc' = "open_doors" /\ call' = "run")]_vars
    /\ [][SameFloorStop =>
            /\ current_state' # "traveling"
            /\ pc' \in {"open_doors", "open_wait", "transfer_passengers", "transfer_wait",
                        "close_doors", "doors_closing", "close_sleep", "totals", "for"}
            /\ UNCHANGED <<travel_time, current_floor, visited_floors>>
            /\ ~ FloatLess(door_operation_time', door_operation_time)
            /\ ~ FloatLess(passenger_transfer_time', passenger_transfer_time)
            /\ ~ FloatLess(total_time', total_time)]_vars

\* A stop at the current floor in the middle of a run has been served and its
\* times are about to be added.
C4_Witness ==
    /\ SameFloorStop
    /\ pc = "totals"
    /\ idx > 1
    /\ Len(visited_floors) > 1

----------------------------------------------------------------------------
(* C5 *)

\* C5: after every completed floor cycle and when run() has returned,
\* total_time == travel_time + door_operation_time + passenger_transfer_time.
C5_TotalIsSum ==
    pc \in {"for", "stop_listener", "done"} =>
        total_time
          = FloatAdd(FloatAdd(travel_time, door_operation_time), passenger_transfer_time)

----------------------------------------------------------------------------
(* C6 *)

\* C6: when the door-opening wait of a floor was interrupted, that floor adds
\* nothing to passenger_transfer_time; and skip_passenger_transfer is set only
\* between that interrupted wait and the transfer_passengers call of the same
\* floor, so it is false when the cycle of the following floor begins and the
\* following transfer is not skipped on account of the earlier interruption.
C6_SkipOnlyOwnTransfer ==
    /\ [](skip_passenger_transfer => (pc = "transfer_passengers" /\ OpeningInterrupted))
    /\ []((pc \in {"close_doors", "doors_closing", "close_sleep", "totals"}
             /\ OpeningInterrupted)
            => (passenger_transfer = Sec(0) /\ time_elapsed_passengers = Sec(0)))
    /\ [][(pc = "totals" /\ pc' = "for" /\ OpeningInterrupted)
            => passenger_transfer_time' = passenger_transfer_time]_vars

\* The doors open on the floor that follows a floor whose door-opening wait
\* was interrupted.
C6_Witness ==
    /\ pc = "open_doors"
    /\ idx > 1
    /\ <<idx - 1, "opening">> \in interrupted
    /\ ~ skip_passenger_transfer

----------------------------------------------------------------------------
(* C7 *)

\* Time the caller has taken from transfer_passengers for the floor being served.
TransferTaken == IF call = "run" THEN passenger_transfer ELSE time_elapsed_passengers

\* Time the caller has taken from open_doors and close_doors for the floor
\* being served.
DoorsTaken == IF call = "run" THEN FloatAdd(door_open, door_close) ELSE time_elapsed_doors

\* Time the caller has taken from travel_to_floor for the floor being served.
TravelTaken == IF call = "run" THEN Sec(0) ELSE time_elapsed_travel

\* Floor the car stood at when the turn of the floor being served came
\* (stated once the car has arrived).
FloorBefore ==
    IF call = "run" THEN current_floor ELSE visited_floors[Len(visited_floors) - 1]

\* C7: when the passenger-transfer wait of a floor is interrupted, the wait
\* returns less than PASSENGER_TRANSFER_TIME with the cancel signal clear, and
\* the floor adds exactly DOOR_OPEN_TIME + DOOR_CLOSE_TIME of door time, its
\* full travel time and less than PASSENGER_TRANSFER_TIME of transfer time.
C7_TransferInterrupted ==
    /\ [][(pc = "transfer_wait" /\ TransferInterrupted') =>
            /\ pc' = "close_doors"
            /\ ~ close_door_pressed'
            /\ FloatLess(TransferTaken', Sec(PASSENGER_TRANSFER_TIME))
            /\ TransferTaken' = elapsed]_vars
    /\ [][(pc = "totals" /\ pc' = "for" /\ TransferInterrupted /\ ~ OpeningInterrupted) =>
            /\ DoorsTaken = Sec(DOOR_OPEN_TIME + DOOR_CLOSE_TIME)
            /\ door_operation_time' = FloatAdd(door_operation_time, DoorsTaken)
            /\ TravelTaken = Sec(FLOOR_TRAVEL_TIME * Abs(current_floor - FloorBefore))
            /\ travel_time' = FloatAdd(travel_time, TravelTaken)
            /\ FloatLess(TransferTaken, Sec(PASSENGER_TRANSFER_TIME))
            /\ passenger_transfer_time'
                 = FloatAdd(passenger_transfer_time, TransferTaken)]_vars

\* A floor the car travelled to has been served with its transfer cut short
\* after some time.
C7_Witness ==
    /\ pc = "totals"
    /\ TransferInterrupted
    /\ call = "visit_floor"
    /\ FloatLess(Sec(0), time_elapsed_passengers)
    /\ FloatLess(Sec(0), time_elapsed_travel)

----------------------------------------------------------------------------
(* C8 *)

\* C8: whenever the state is idle (before the first floor and after every
\* close_doors) the cancel signal is clear, so no press carries over into the
\* cycle of a later floor.
C8_SignalClearWhenIdle == current_state = "idle" => ~ close_door_pressed

----------------------------------------------------------------------------
(* C9 *)

\* C9: the cancel signal goes from clear to set only while the car's state is
\* doors_open or transferring, never in traveling, doors_closing or idle.
C9_SetOnlyWhileDoorsOpen ==
    [][(~ close_door_pressed /\ close_door_pressed')
         => current_state \in {"doors_open", "transferring"}]_vars

----------------------------------------------------------------------------
(* C10 *)

\* The assignment self.current_floor = value has to be rejected.
Unacceptable(value) ==
    \/ value.type # "int"
    \/ value.twice \notin {2 * f : f \in MIN_FLOOR..MAX_FLOOR}

\* C10: current_floor is always an integer of MIN_FLOOR..MAX_FLOOR; assigning a
\* value that is no int raises TypeError, assigning an int out of range raises
\* ValueError, and both leave current_floor as it was.
C10_CurrentFloorInRange ==
    /\ [](current_floor \in MIN_FLOOR..MAX_FLOOR)
    /\ [][(pc = "set_floor" /\ pc' # pc /\ Unacceptable(Target)) =>
            /\ current_floor' = current_floor
            /\ pc' = "raised"
            /\ error' = IF Target.type # "int" THEN "TypeError" ELSE "ValueError"]_vars
    /\ [][(pc = "set_floor" /\ pc' # pc /\ ~ Unacceptable(Target)) =>
            /\ 2 * current_floor' = Target.twice
            /\ error' = "none"]_vars

\* At the top floor, the assignment of a value that is no int has been rejected.
C10_Witness ==
    /\ pc = "raised"
    /\ error = "TypeError"
    /\ current_floor = MAX_FLOOR

----------------------------------------------------------------------------
(* C11 *)

\* C11: when run() is left by the ValueError of a requested floor outside
\* MIN_FLOOR..MAX_FLOOR, the state is idle, current_floor is the last floor
\* visited, visited_floors holds the floors of the completed cycles only, and
\* (no wait having been interrupted) the accumulators hold the times of the
\* completed cycles only.
C11_AbortLeavesIdle ==
    (pc = "raised" /\ error = "ValueError") =>
        LET n == idx - 1
            plan == [i \in 1..n |-> FloorOf(i)]
            travelled == FLOOR_TRAVEL_TIME * PathDistance(start_floor, plan)
            doors == (DOOR_OPEN_TIME + DOOR_CLOSE_TIME) * n
            transfers == PASSENGER_TRANSFER_TIME * n
        IN  /\ current_state = "idle"
            /\ current_floor = visited_floors[Len(visited_floors)]
            /\ visited_floors = <<start_floor>> \o History(start_floor, plan)
            /\ interrupted = {} =>
                 /\ travel_time = Sec(travelled)
                 /\ door_operation_time = Sec(doors)
                 /\ passenger_transfer_time = Sec(transfers)
                 /\ total_time = Sec(travelled + doors + transfers)

----------------------------------------------------------------------------
(* C12 *)

\* The main thread takes a step of the interruptible wait it is in (a turn of
\* the while loop of _interruptible_sleep).
WaitTurn ==
    /\ pc \in {"open_wait", "transfer_wait"}
    /\ (pc' # pc \/ elapsed' # elapsed)

\* Target duration of the interruptible wait in progress.
WaitDuration ==
    IF pc = "open_wait" THEN Sec(DOOR_OPEN_TIME) ELSE Sec(PASSENGER_TRANSFER_TIME)

\* C12: a cancel signal set while an interruptible wait is in progress is seen
\* by the next poll of that wait: the turn of the loop that follows returns
\* early, with the elapsed time of that poll (at most one step beyond the
\* elapsed time at which the signal was set), and the wait does not run on to
\* its full duration.
C12_ObservedWithinOnePoll ==
    [][(WaitTurn /\ close_door_pressed) =>
         /\ pc' # pc
         /\ FloatLess(elapsed, WaitDuration)
         /\ IF pc = "open_wait"
            THEN <<idx, "opening">> \in interrupted'
            ELSE <<idx, "transfer">> \in interrupted']_vars

----------------------------------------------------------------------------
(* C13 *)

\* The steps the listener thread takes on its own once it is scheduled; the
\* return of input() waits for a line, or the end, of the input stream.
ListenerStep ==
    \/ ListenerWhile
    \/ ListenerIfTraveling
    \/ ListenerElifDoorsOpen
    \/ ListenerSet
    \/ ListenerElifDoorsClosing

\* The run with both threads scheduled fairly: a thread that can take a step
\* of its own eventually takes it.
FairSpec == Spec /\ WF_vars(Main) /\ WF_vars(ListenerStep)

\* C13: in real time, once run() has set stop_listener the listener thread
\* eventually leaves keyboard_listener, whether or not input() returns another
\* line; and it leaves when input() meets the end of the input stream.
C13_ListenerTerminates ==
    /\ (real_time /\ stop_listener) ~> (l_pc = "exit")
    /\ [][(l_pc = "input" /\ l_pc' # l_pc /\ lines_read' = lines_read)
            => l_pc' = "exit"]_vars

----------------------------------------------------------------------------
(* C14 *)

\* The states of the cycles of a car that stands at floor from and serves
\* floors, whatever its profile.
RECURSIVE ExpectedStates(_, _)
ExpectedStates(from, floors) ==
    IF floors = <<>>
    THEN <<>>
    ELSE (IF Head(floors) = from THEN <<>> ELSE <<"traveling">>)
           \o <<"doors_open", "transferring", "doors_closing", "idle">>
           \o ExpectedStates(Head(floors), Tail(floors))

\* C14: without real time, the run of a valid floor plan passes through a
\* sequence of states and returns visited_floors, door_operation_time and
\* passenger_transfer_time that are all given by the start floor and the plan
\* alone, hence the same on the standard and on the fast profile; travel_time
\* is the time per floor of the profile times the distance of the plan, so the
\* standard travel_time is twice the fast one.
C14_ProfilesAgree ==
    (pc = "done" /\ ~ real_time) =>
        LET n == Len(floors_to_visit)
            plan == [i \in 1..n |-> FloorOf(i)]
            distance == PathDistance(start_floor, plan)
        IN  /\ state_trace = <<"idle">> \o ExpectedStates(start_floor, plan)
            /\ visited_floors = <<start_floor>> \o History(start_floor, plan)
            /\ door_operation_time = Sec((DOOR_OPEN_TIME + DOOR_CLOSE_TIME) * n)
            /\ passenger_transfer_time = Sec(PASSENGER_TRANSFER_TIME * n)
            /\ travel_time = Sec(FLOOR_TRAVEL_TIME * distance)
            /\ Sec(STANDARD_FLOOR_TRAVEL_TIME * distance)
                 = FloatAdd(Sec(FAST_FLOOR_TRAVEL_TIME * distance),
                            Sec(FAST_FLOOR_TRAVEL_TIME * distance))

\* The fast car has returned from a plan on which it travelled and on which it
\* also stopped at the floor it stood at.
C14_Witness ==
    /\ pc = "done"
    /\ ~ real_time
    /\ FLOOR_TRAVEL_TIME = FAST_FLOOR_TRAVEL_TIME
    /\ start_floor = 5
    /\ floors_to_visit = ScenarioPlan(<<5, 10>>)
    /\ travel_time = Sec(25)
    /\ state_trace = <<"idle", "doors_open", "transferring", "doors_closing", "idle",
                       "traveling", "doors_open", "transferring", "doors_closing",
                       "idle">>

----------------------------------------------------------------------------
(* C15 *)

\* Times per floor a profile may have.
TimesPerFloor == 1..MaxTimePerFloor

\* travel_to_floor(b) called on a car that was constructed at floor a, for
\* every pair of floors of the building and every time per floor (as the unit
\* tests call it).
TravelInit ==
    /\ \E a \in MIN_FLOOR..MAX_FLOOR, b \in MIN_FLOOR..MAX_FLOOR, t \in TimesPerFloor :
           Construct(PyInt(a), <<PyInt(b)>>, FALSE, t)
    /\ pc = "travel_to_floor"
    /\ idx = 1
    /\ call = "visit_floor"
    /\ elapsed = Sec(0)
    /\ door_open = Sec(0)
    /\ passenger_transfer = Sec(0)
    /\ door_close = Sec(0)
    /\ time_elapsed_travel = Sec(0)
    /\ time_elapsed_doors = Sec(0)
    /\ time_elapsed_passengers = Sec(0)
    /\ error = "none"
    /\ l_pc = "off"
    /\ lines_read = 0
    /\ interrupted = {}
    /\ state_trace = <<"idle">>

TravelNext == TravelToFloor \/ TravelSleep

TravelSpec == TravelInit /\ [][TravelNext]_vars

\* C15: travel_to_floor called at floor a with target b returns
\* abs(b - a) * t for the time per floor t, and 0 when a == b.
C15_TravelDuration ==
    pc = "set_floor" =>
        /\ time_elapsed_travel
             = Sec(Abs(FloorOf(idx) - current_floor) * FLOOR_TRAVEL_TIME)
        /\ FloorOf(idx) = current_floor => time_elapsed_travel = Sec(0)

\* travel_to_floor has returned from a travel downwards over the whole building.
C15_Witness ==
    /\ pc = "set_floor"
    /\ current_floor = MAX_FLOOR
    /\ FloorOf(idx) = MIN_FLOOR
    /\ FLOOR_TRAVEL_TIME = 7
    /\ time_elapsed_travel = Sec(238)
    /\ current_state = "traveling"

----------------------------------------------------------------------------
(* C16 *)

\* The four time accumulators.
Accumulators == <<total_time, travel_time, door_operation_time, passenger_transfer_time>>

\* C16: in every run and under every interleaving with the listener, each of
\* total_time, travel_time, door_operation_time and passenger_transfer_time is
\* 0 when run() begins, is never negative and never decreases from one state
\* to the next.
C16_AccumulatorsMonotone ==
    /\ [](pc = "run" => \A i \in 1..4 : Accumulators[i] = Sec(0))
    /\ [](\A i \in 1..4 : ~ FloatLess(Accumulators[i], Sec(0)))
    /\ [][\A i \in 1..4 : ~ FloatLess(Accumulators'[i], Accumulators[i])]_vars

\* After a floor whose transfer was interrupted, the times of a second floor
\* have been added.
C16_Witness ==
    /\ pc = "for"
    /\ idx = 2
    /\ <<1, "transfer">> \in interrupted
    /\ FloatLess(Sec(DOOR_OPEN_TIME + DOOR_CLOSE_TIME), door_operation_time)
    /\ FloatLess(Sec(0), travel_time)
    /\ FloatLess(Sec(0), passenger_transfer_time)
    /\ FloatLess(door_operation_time, total_time)

----------------------------------------------------------------------------
(* C17 *)

\* The listener thread takes a step.
ListenerMoves == l_pc # "off" /\ (l_pc' # l_pc \/ lines_read' # lines_read)

\* Positions of the listener between the arrival of a 'c' line and its return
\* to the head of the loop.
AfterClosePositions == {"if_traveling", "elif_doors_open", "elif_doors_closing", "set"}

\* C17: the cancel signal and stop_listener are the only state the two threads
\* share: a step of the listener writes no variable of the car but the cancel
\* signal, and what it does next after a 'c' line is given by its own position
\* alone: no step of the main thread, taken while the listener stands at a
\* position, changes the position the listener goes to from there.
C17_OnlySignalsShared ==
    /\ [][ListenerMoves =>
            UNCHANGED <<inputVars, carVars, accVars, localVars, stop_listener, pc, idx,
                        call, error>>]_vars
    /\ [][\A p \in AfterClosePositions, next \in AfterClosePositions \cup {"while"} :
            (l_pc = p /\ l_pc' = p) =>
              ((ENABLED (Listener /\ l_pc' = next))
                 <=> (ENABLED (Listener /\ l_pc' = next))')]_vars

----------------------------------------------------------------------------
(* C18 *)

\* Time the caller has taken from open_doors for the floor being served
\* (stated before close_doors has returned).
DoorOpenTaken == IF call = "run" THEN door_open ELSE time_elapsed_doors

\* open_doors returns to its caller.
OpenDoorsReturns == pc \in {"open_doors", "open_wait"} /\ pc' = "transfer_passengers"

\* C18: when the door-opening wait sees the cancel signal before
\* DOOR_OPEN_TIME has elapsed, open_doors returns the time elapsed at that
\* poll, less than DOOR_OPEN_TIME, with skip_passenger_transfer set, the cancel
\* signal still set and the state doors_open; when the wait is not interrupted,
\* open_doors returns exactly DOOR_OPEN_TIME and skip_passenger_transfer is
\* false.
C18_OpenDoorsInterrupted ==
    /\ [][(WaitTurn /\ pc = "open_wait" /\ close_door_pressed
             /\ FloatLess(elapsed, Sec(DOOR_OPEN_TIME))) =>
            /\ OpenDoorsReturns
            /\ DoorOpenTaken' = elapsed
            /\ FloatLess(DoorOpenTaken', Sec(DOOR_OPEN_TIME))
            /\ skip_passenger_transfer'
            /\ close_door_pressed'
            /\ current_state' = "doors_open"
            /\ OpeningInterrupted']_vars
    /\ [][(OpenDoorsReturns /\ ~ OpeningInterrupted') =>
            /\ DoorOpenTaken' = Sec(DOOR_OPEN_TIME)
            /\ ~ skip_passenger_transfer'
            /\ current_state' = "doors_open"]_vars

\* open_doors has returned early, some time into the door opening of a floor
\* the car travelled to.
C18_Witness ==
    /\ pc = "transfer_passengers"
    /\ call = "visit_floor"
    /\ OpeningInterrupted
    /\ FloatLess(Sec(1), time_elapsed_doors)
    /\ FloatLess(time_elapsed_doors, Sec(DOOR_OPEN_TIME))
    /\ skip_passenger_transfer
    /\ close_door_pressed
    /\ current_state = "doors_open"

----------------------------------------------------------------------------
(* C19 *)

\* C19: transfer_passengers called with skip_passenger_transfer set clears the
\* flag and returns 0 at once: there is no wait, the state is not set to
\* transferring but stays doors_open, and the cancel signal is left as it was.
C19_SkippedTransfer ==
    [][(pc = "transfer_passengers" /\ pc' # pc /\ skip_passenger_transfer) =>
         /\ pc' = "close_doors"
         /\ ~ skip_passenger_transfer'
         /\ TransferTaken' = Sec(0)
         /\ current_state = "doors_open"
         /\ UNCHANGED <<current_state, state_trace, close_door_pressed, elapsed>>]_vars

\* transfer_passengers has returned 0 for a skipped transfer, the cancel signal
\* still being set.
C19_Witness ==
    /\ pc = "close_doors"
    /\ OpeningInterrupted
    /\ ~ skip_passenger_transfer
    /\ TransferTaken = Sec(0)
    /\ current_state = "doors_open"
    /\ close_door_pressed
    /\ state_trace[Len(state_trace)] = "doors_open"

----------------------------------------------------------------------------
(* C20 *)

\* The main thread is inside close_doors.
InCloseDoors == pc \in {"close_doors", "doors_closing", "close_sleep"}

\* C20: close_doors is never cut short: once entered, whatever the cancel
\* signal and skip_passenger_transfer are and whatever the listener does, it
\* goes through the state doors_closing and its sleep and hands exactly
\* DOOR_CLOSE_TIME to its caller; when it returns the state is idle and
\* skip_passenger_transfer is false.
C20_CloseDoorsFullTime ==
    /\ [][(InCloseDoors /\ pc' # pc) =>
            \/ pc = "close_doors" /\ pc' = "doors_closing"
            \/ pc = "doors_closing" /\ pc' = "close_sleep"
                 /\ current_state' = "doors_closing"
            \/ pc = "close_sleep" /\ pc' = "totals"]_vars
    /\ [][(pc = "close_sleep" /\ pc' # pc) =>
            /\ IF call = "run"
               THEN door_close' = Sec(DOOR_CLOSE_TIME)
               ELSE time_elapsed_doors'
                      = FloatAdd(time_elapsed_doors, Sec(DOOR_CLOSE_TIME))
            /\ current_state' = "idle"
            /\ ~ skip_passenger_transfer']_vars

\* close_doors has returned although the cancel signal was set while the
\* doors were closing.
C20_Witness ==
    /\ pc = "totals"
    /\ call = "run"
    /\ door_close = Sec(DOOR_CLOSE_TIME)
    /\ current_state = "idle"
    /\ close_door_pressed
    /\ ~ skip_passenger_transfer

----------------------------------------------------------------------------
(* C21 *)

\* C21: without real time no listener runs: in every state of the run the
\* cancel signal is clear and skip_passenger_transfer is false, no wait is
\* interrupted, and open_doors, transfer_passengers and close_doors return
\* DOOR_OPEN_TIME, PASSENGER_TRANSFER_TIME and DOOR_CLOSE_TIME.
C21_NoSignalWithoutRealTime ==
    ~ real_time =>
        /\ l_pc = "off"
        /\ ~ close_door_pressed
        /\ ~ skip_passenger_transfer
        /\ interrupted = {}
        /\ pc = "transfer_passengers" => DoorOpenTaken = Sec(DOOR_OPEN_TIME)
        /\ pc \in {"close_doors", "doors_closing", "close_sleep"} =>
             /\ DoorOpenTaken = Sec(DOOR_OPEN_TIME)
             /\ TransferTaken = Sec(PASSENGER_TRANSFER_TIME)
        /\ pc = "totals" =>
             /\ DoorsTaken = Sec(DOOR_OPEN_TIME + DOOR_CLOSE_TIME)
             /\ call = "run" => door_close = Sec(DOOR_CLOSE_TIME)
             /\ TransferTaken = Sec(PASSENGER_TRANSFER_TIME)

\* Without real time, the three phases of a floor the car travelled to have
\* returned.
C21_Witness ==
    /\ ~ real_time
    /\ pc = "totals"
    /\ call = "visit_floor"
    /\ idx = 2
    /\ time_elapsed_doors = Sec(DOOR_OPEN_TIME + DOOR_CLOSE_TIME)
    /\ time_elapsed_passengers = Sec(PASSENGER_TRANSFER_TIME)

----------------------------------------------------------------------------
(* C22 *)

\* Every requested floor is an int of MIN_FLOOR..MAX_FLOOR.
ValidPlan == \A i \in 1..Len(floors_to_visit) : ~ Unacceptable(floors_to_visit[i])

\* Number of times the doors have been opened (assignments of doors_open).
DoorsOpened ==
    Cardinality({i \in 1..Len(state_trace) : state_trace[i] = "doors_open"})

\* C22: the run of a valid floor plan returns, whatever the listener does: the
\* floors are served in request order, the doors are opened exactly once for
\* each requested floor served, and run() returns with the state idle, the car
\* at the last requested floor and, in real time, stop_listener set.
C22_RunTerminates ==
    /\ ValidPlan ~> (pc = "done")
    /\ [](ValidPlan => pc # "raised")
    /\ [](DoorsOpened
            = IF pc \in {"travel_to_floor", "travel_sleep", "set_floor", "raised",
                         "open_doors"}
              THEN idx - 1
              ELSE idx)
    /\ [](pc = "done" =>
            LET n == Len(floors_to_visit)
            IN  /\ idx = n
                /\ DoorsOpened = n
                /\ visited_floors
                     = <<start_floor>>
                         \o History(start_floor, [i \in 1..n |-> FloorOf(i)])
                /\ current_state = "idle"
                /\ current_floor = IF n = 0 THEN start_floor ELSE FloorOf(n)
                /\ real_time => stop_listener)

\* A real-time run of two floors has returned although a wait was interrupted.
C22_Witness ==
    /\ pc = "done"
    /\ real_time
    /\ Len(floors_to_visit) = 2
    /\ interrupted # {}
    /\ stop_listener
    /\ DoorsOpened = 2

----------------------------------------------------------------------------
(* C23 *)

\* C23: the accumulators are written by run() alone, after the phases of a
\* floor have completed: no step of travel_to_floor, open_doors,
\* transfer_passengers or close_doors and no step of the listener changes
\* total_time, travel_time, door_operation_time or passenger_transfer_time,
\* and when run() adds the times of a served floor, each accumulator grows by
\* the time its phases returned and total_time by their sum.
C23_AccumulatorsWrittenByRun ==
    /\ [][pc # "totals" => UNCHANGED accVars]_vars
    /\ [][(pc = "totals" /\ pc' # pc) =>
            /\ travel_time' = FloatAdd(travel_time, TravelTaken)
            /\ door_operation_time' = FloatAdd(door_operation_time, DoorsTaken)
            /\ passenger_transfer_time'
                 = FloatAdd(passenger_transfer_time, TransferTaken)
            /\ total_time'
                 = FloatAdd(total_time,
                            FloatAdd(FloatAdd(DoorsTaken, TransferTaken), TravelTaken))]_vars

\* The times of a floor the car travelled to in real time, shortened by an
\* interruption, have been added.
C23_Witness ==
    /\ pc = "for"
    /\ idx = 1
    /\ real_time
    /\ interrupted # {}
    /\ travel_time = Sec(STANDARD_FLOOR_TRAVEL_TIME)
    /\ FloatLess(Sec(DOOR_CLOSE_TIME), door_operation_time)
    /\ FloatLess(travel_time, total_time)

----------------------------------------------------------------------------
(* C24 *)

\* visit_floor(b) called on a car that was constructed at floor a, up to its
\* call of open_doors: travel_to_floor, then the assignment of current_floor
\* and the append to visited_floors.
VisitNext == TravelToFloor \/ TravelSleep \/ SetFloor

VisitSpec == TravelInit /\ [][VisitNext]_vars

\* C24: travel_to_floor(target) leaves current_floor and visited_floors
\* unchanged; when the target equals the current floor it returns at once and
\* leaves the state unchanged too.  The caller, visit_floor, stores the target
\* as the current floor and appends it to visited_floors after travel_to_floor
\* has returned and before it calls open_doors.
C24_TravelLeavesFloor ==
    /\ [][(pc = "travel_to_floor" \/ pc = "travel_sleep") =>
            UNCHANGED <<current_floor, visited_floors>>]_vars
    /\ [][(pc = "travel_to_floor" /\ FloorOf(idx) = current_floor) =>
            (pc' = "set_floor" /\ UNCHANGED <<current_state, state_trace>>)]_vars
    /\ [][(pc = "set_floor" /\ pc' # pc) =>
            /\ pc' = "open_doors"
            /\ current_floor' = FloorOf(idx)
            /\ visited_floors' = Append(visited_floors, FloorOf(idx))
            /\ UNCHANGED current_state]_vars

\* travel_to_floor(10) has returned on a car at floor 5: the state is
\* traveling, the car is still recorded at floor 5 and floor 10 is not in
\* visited_floors.
C24_Witness ==
    /\ pc = "set_floor"
    /\ FloorOf(idx) = 10
    /\ current_floor = 5
    /\ visited_floors = <<5>>
    /\ current_state = "traveling"
    /\ FLOOR_TRAVEL_TIME = STANDARD_FLOOR_TRAVEL_TIME
    /\ time_elapsed_travel = Sec(50)

----------------------------------------------------------------------------
(* C25 *)

\* C25: during a run current_floor changes only in a step taken while the
\* state is traveling (and that leaves it traveling), so never while the state
\* is idle, doors_open, transferring or doors_closing.
C25_MovesOnlyWhileTraveling ==
    [][current_floor' # current_floor =>
          (current_state = "traveling" /\ current_state' = "traveling")]_vars

\* The car of a real-time run has moved from floor 2 to floor 3 after the doors
\* were operated at floor 2, and is about to open the doors at floor 3.
C25_Witness ==
    /\ pc = "open_doors"
    /\ real_time
    /\ idx = 2
    /\ current_floor = 3
    /\ visited_floors = <<1, 2, 3>>
    /\ current_state = "traveling"
    /\ state_trace = <<"idle", "traveling", "doors_open", "transferring",
                       "doors_closing", "idle", "traveling">>

----------------------------------------------------------------------------
(* C26 *)

\* The doors are in operation.
DoorsInOperation == current_state \in {"doors_open", "transferring", "doors_closing"}

\* C26: whenever the state is doors_open, transferring or doors_closing during
\* a run, current_floor equals the requested floor being served and is the
\* last element of visited_floors.
C26_DoorsOperateAtServedFloor ==
    DoorsInOperation =>
        /\ idx \in 1..Len(floors_to_visit)
        /\ PyEq(Target, current_floor)
        /\ visited_floors # <<>>
        /\ visited_floors[Len(visited_floors)] = current_floor

\* The passengers transfer at floor 10, the second requested floor of a car
\* that started at floor 5 and was first asked for floor 5.
C26_Witness ==
    /\ current_state = "transferring"
    /\ pc = "transfer_wait"
    /\ idx = 2
    /\ Target = PyInt(10)
    /\ current_floor = 10
    /\ visited_floors = <<5, 10>>

----------------------------------------------------------------------------
(* C27 *)

\* C27: skip_passenger_transfer is true only while the state is doors_open: it
\* is false in every reachable state where the state is idle, traveling,
\* transferring or doors_closing.
C27_SkipOnlyWhileDoorsOpen ==
    /\ skip_passenger_transfer => current_state = "doors_open"
    /\ current_state \in {"idle", "traveling", "transferring", "doors_closing"} =>
           ~ skip_passenger_transfer

\* The door opening at the second requested floor was interrupted: the flag is
\* set and the state is still doors_open.
C27_Witness ==
    /\ skip_passenger_transfer
    /\ current_state = "doors_open"
    /\ idx = 2
    /\ <<2, "opening">> \in interrupted
    /\ pc = "transfer_passengers"

----------------------------------------------------------------------------
(* C28 *)

\* C28: close tokens do not influence where the car goes.  Every run of a
\* valid plan, in real time with any number and timing of close tokens or
\* without real time, returns with a travel_time, a visited_floors and a
\* current_floor that are given by the start floor, the plan and the profile
\* alone, so any two runs of one plan and profile end with the same three
\* values; and no step of the listener changes any of the three.
C28_TokensDoNotSteer ==
    /\ [](pc = "done" =>
            LET n == Len(floors_to_visit)
                plan == [i \in 1..n |-> FloorOf(i)]
            IN  /\ travel_time
                     = Sec(FLOOR_TRAVEL_TIME * PathDistance(start_floor, plan))
                /\ visited_floors = <<start_floor>> \o History(start_floor, plan)
                /\ current_floor = IF n = 0 THEN start_floor ELSE plan[n])
    /\ [][(l_pc' # l_pc \/ lines_read' # lines_read) =>
            UNCHANGED <<travel_time, visited_floors, current_floor>>]_vars

\* A real-time run of start 1, floors 2, 3 has returned after its close token
\* interrupted a wait, with the travel time and the floors of the run without
\* real time.
C28_Witness ==
    /\ pc = "done"
    /\ real_time
    /\ lines_read = 1
    /\ interrupted # {}
    /\ start_floor = 1
    /\ floors_to_visit = ScenarioPlan(<<2, 3>>)
    /\ travel_time = Sec(2 * STANDARD_FLOOR_TRAVEL_TIME)
    /\ visited_floors = <<1, 2, 3>>
    /\ current_floor = 3

----------------------------------------------------------------------------
(* C29 *)

\* Number of requested floors whose times run() has added to the accumulators.
Added == IF pc \in {"run", "for", "stop_listener", "done"} THEN idx ELSE idx - 1

\* a <= b for two times
FloatLeq(a, b) == ~ FloatLess(b, a)

\* C29: after run() has added the times of n requested floors, whatever close
\* tokens arrived and whenever, DOOR_CLOSE_TIME * n <= door_operation_time
\* <= (DOOR_OPEN_TIME + DOOR_CLOSE_TIME) * n, 0 <= passenger_transfer_time
\* <= PASSENGER_TRANSFER_TIME * n, and total_time is at most the total of the
\* uninterrupted run over the same n floors; so it is when run() returns,
\* with n the length of the plan.
C29_InterruptionsOnlyShorten ==
    (pc # "raised" \/ idx > 0) =>
        LET n == Added
            plan == [i \in 1..n |-> FloorOf(i)]
            uninterrupted ==
                FLOOR_TRAVEL_TIME * PathDistance(start_floor, plan)
                    + (DOOR_OPEN_TIME + DOOR_CLOSE_TIME) * n
                    + PASSENGER_TRANSFER_TIME * n
        IN  /\ pc = "done" => n = Len(floors_to_visit)
            /\ FloatLeq(Sec(DOOR_CLOSE_TIME * n), door_operation_time)
            /\ FloatLeq(door_operation_time, Sec((DOOR_OPEN_TIME + DOOR_CLOSE_TIME) * n))
            /\ FloatLeq(Sec(0), passenger_transfer_time)
            /\ FloatLeq(passenger_transfer_time, Sec(PASSENGER_TRANSFER_TIME * n))
            /\ FloatLeq(total_time, Sec(uninterrupted))

\* A real-time run of two floors has returned; one door opening was cut short
\* after it had begun, so the door time lies strictly between the bounds and
\* only one transfer was counted.
C29_Witness ==
    /\ pc = "done"
    /\ real_time
    /\ Len(floors_to_visit) = 2
    /\ \E i \in 1..2 : <<i, "opening">> \in interrupted
    /\ FloatLess(Sec(2 * DOOR_CLOSE_TIME), door_operation_time)
    /\ FloatLess(door_operation_time, Sec(2 * (DOOR_OPEN_TIME + DOOR_CLOSE_TIME)))
    /\ passenger_transfer_time = Sec(PASSENGER_TRANSFER_TIME)

====
